---- MODULE Spec2Model ----
(***************************************************************************)
(* A model of osmnx_color_roads.py: the retry loop of get_data, the word   *)
(* count of find_common_words, the top-word selection of generate_image,   *)
(* the key interleaving of palette_generator and the lookup of             *)
(* color_for_road.                                                         *)
(*                                                                         *)
(* A Python str is a sequence of one-character strings.  A dict is the     *)
(* sequence of its <<key, value>> pairs in insertion order, which is the   *)
(* order Python iterates it in.                                            *)
(***************************************************************************)
EXTENDS Integers, Sequences, FiniteSets, TLC

VARIABLES pc, start, which_result, attempts, last_fetch, graph,
          edges, occurrences, key_size, top, palette_key, road_name, edge_color

vars == <<pc, start, which_result, attempts, last_fetch, graph,
          edges, occurrences, key_size, top, palette_key, road_name, edge_color>>

getDataVars == <<start, which_result, attempts, last_fetch, graph>>
wordVars == <<edges, occurrences>>
colorVars == <<road_name, edge_color>>

Max(a, b) == IF a >= b THEN a ELSE b
Min(a, b) == IF a <= b THEN a ELSE b

(***************************************************************************)
(* get_data: the retry loop over the disambiguation index.                 *)
(***************************************************************************)

\* The largest which_result a call of get_data starts with.
MaxStart == 12
\* A cap on the number of fetches of one call; GetDataBounded shows that the
\* loop never reaches it.
MaxAttempts == 14

\* The index above which a failed fetch is fatal.
MaxIndex == 9

\* graph = None
NoGraph == << >>

ExhaustedLate(wr) == wr > MaxIndex + 1

\* if which_result > 9: raise TypeError
Exhausted(wr) == wr > MaxIndex

NextIndexReset(wr) == 1

\* which_result += 1
NextIndex(wr) == wr + 1

InitGetData ==
    /\ pc = "loop"
    /\ start \in 0..MaxStart
    /\ which_result = start
    /\ attempts = 0
    /\ last_fetch = -1
    /\ graph = NoGraph
    /\ edges = << >>
    /\ occurrences = << >>
    /\ key_size = 0
    /\ top = << >>
    /\ palette_key = << >>
    /\ road_name = << >>
    /\ edge_color = << >>

\* One iteration of the loop in which ox.graph_from_place returns a graph:
\* graph is no longer None, the loop ends and the graph is returned.
FetchReturnsGraph ==
    /\ pc = "loop"
    /\ graph = NoGraph
    /\ attempts < MaxAttempts
    /\ last_fetch' = which_result
    /\ attempts' = attempts + 1
    /\ graph' = <<which_result>>
    /\ pc' = "returned"
    /\ UNCHANGED <<start, which_result, wordVars, key_size, top, palette_key, colorVars>>

\* One iteration in which the fetch raises TypeError or KeyError: fatal when
\* the index is above 9, else the index moves on and the loop goes round.
FetchAmbiguous ==
    /\ pc = "loop"
    /\ graph = NoGraph
    /\ attempts < MaxAttempts
    /\ last_fetch' = which_result
    /\ attempts' = attempts + 1
    /\ IF Exhausted(which_result)
         THEN /\ pc' = "exhausted"
              /\ UNCHANGED which_result
         ELSE /\ pc' = "loop"
              /\ which_result' = NextIndex(which_result)
    /\ UNCHANGED <<start, graph, wordVars, key_size, top, palette_key, colorVars>>

\* One iteration in which the fetch raises any other exception: the except
\* clause does not catch it and it reaches the caller.
FetchFailsOtherwise ==
    /\ pc = "loop"
    /\ graph = NoGraph
    /\ attempts < MaxAttempts
    /\ last_fetch' = which_result
    /\ attempts' = attempts + 1
    /\ pc' = "propagated"
    /\ UNCHANGED <<start, which_result, graph, wordVars, key_size, top, palette_key, colorVars>>

NextGetData == FetchReturnsGraph \/ FetchAmbiguous \/ FetchFailsOtherwise

SpecGetData == InitGetData /\ [][NextGetData]_vars

\* The interpreter keeps running the loop: an iteration that can be taken is
\* taken.
FairGetData == SpecGetData /\ WF_vars(NextGetData)

\* C1 (as stated): no fetch is ever attempted with a disambiguation index
\* greater than 9.
C1_NoFetchAboveNine == last_fetch <= MaxIndex

\* C1 (amended): every fetch uses an index of at most max(start, 10), the
\* index only ever grows from start by one per ambiguous failure, and the
\* fatal error is raised exactly by an ambiguous failure of a fetch whose
\* index is greater than 9.
C1_FetchCap ==
    /\ last_fetch <= Max(start, MaxIndex + 1)
    /\ which_result <= Max(start, MaxIndex + 1)
    /\ pc = "exhausted" => last_fetch > MaxIndex /\ last_fetch = which_result
    /\ pc = "loop" => which_result = start + attempts
    /\ pc = "loop" /\ attempts > 0 =>
           last_fetch = which_result - 1 /\ last_fetch <= MaxIndex

\* A call that started at 1 has failed ten times, the last time at index 10.
C1_Witness ==
    /\ pc = "exhausted"
    /\ start = 1
    /\ last_fetch = MaxIndex + 1
    /\ attempts = MaxIndex + 1

GetDataTerminal == pc \in {"returned", "exhausted", "propagated"}

\* The loop is bounded: a call makes at most max(1, 11 - start) fetches, and
\* the cap of the model is never what stops it.
GetDataBounded ==
    /\ attempts <= Max(1, MaxIndex + 2 - start)
    /\ pc = "loop" => attempts < MaxAttempts
    /\ pc = "returned" <=> graph # NoGraph
    /\ pc = "returned" => graph = <<last_fetch>>

\* C10: get_data always ends, with the graph of the first successful fetch
\* returned or with an error raised to the caller; the number of fetches is
\* bounded, and nothing is fetched after a success or an error.
C10_Terminates ==
    /\ <>GetDataTerminal
    /\ []GetDataBounded
    /\ [][GetDataTerminal => UNCHANGED vars]_vars

\* Nine ambiguous failures and then a success at index 10.
C10_Witness ==
    /\ pc = "returned"
    /\ start = 1
    /\ attempts = MaxIndex + 1
    /\ graph = <<MaxIndex + 1>>

(***************************************************************************)
(* Python strings and values.                                              *)
(***************************************************************************)

UpperCase == <<"A", "B", "C", "D", "E", "F", "G", "H", "I", "J", "K", "L", "M",
               "N", "O", "P", "Q", "R", "S", "T", "U", "V", "W", "X", "Y", "Z">>
LowerCase == <<"a", "b", "c", "d", "e", "f", "g", "h", "i", "j", "k", "l", "m",
               "n", "o", "p", "q", "r", "s", "t", "u", "v", "w", "x", "y", "z">>
Digits == {"0", "1", "2", "3", "4", "5", "6", "7", "8", "9"}

LowerChar(c) ==
    IF \E i \in DOMAIN UpperCase : UpperCase[i] = c
      THEN LowerCase[CHOOSE i \in DOMAIN UpperCase : UpperCase[i] = c]
      ELSE c

\* str.lower()
Lower(s) == [i \in 1..Len(s) |-> LowerChar(s[i])]

\* str.isdigit(): at least one character, and every character a digit
IsDigit(s) == Len(s) > 0 /\ \A i \in 1..Len(s) : s[i] \in Digits

\* str.split(' '): cuts at every single space, so that two spaces in a row
\* or a space at an end give an empty word
RECURSIVE Split(_)
Split(s) ==
    IF \A i \in 1..Len(s) : s[i] # " "
      THEN <<s>>
      ELSE LET i == CHOOSE j \in 1..Len(s) :
                        s[j] = " " /\ \A k \in 1..(j - 1) : s[k] # " "
           IN  <<SubSeq(s, 1, i - 1)>> \o Split(SubSeq(s, i + 1, Len(s)))

\* key in road_name, for two strings
Contains(key, s) ==
    \E i \in 1..(Len(s) - Len(key) + 1) : SubSeq(s, i, i + Len(key) - 1) = key

\* The values of an edge's name: a str, the float NaN of an unnamed edge,
\* None, or a list of strs (items holds the str, or the strs of the list).
StrValue(s) == [t |-> "str", items |-> <<s>>]
NaN == [t |-> "float", items |-> << >>]
None == [t |-> "none", items |-> << >>]
ListValue(ss) == [t |-> "list", items |-> ss]

\* repr() of a str that holds no quote and no backslash
Repr(s) == <<"'">> \o s \o <<"'">>

RECURSIVE JoinRepr(_)
JoinRepr(ss) ==
    IF Len(ss) = 0 THEN << >>
    ELSE IF Len(ss) = 1 THEN Repr(ss[1])
    ELSE Repr(ss[1]) \o <<",", " ">> \o JoinRepr(Tail(ss))

\* str(value)
PyStr(v) ==
    CASE v.t = "str" -> v.items[1]
      [] v.t = "float" -> <<"n", "a", "n">>
      [] v.t = "none" -> <<"N", "o", "n", "e">>
      [] v.t = "list" -> <<"[">> \o JoinRepr(v.items) \o <<"]">>

(***************************************************************************)
(* find_common_words                                                       *)
(***************************************************************************)

\* "<ordm>" stands for the one character U+00BA.
STOP_WORDS == {
    <<"t", "h", "e">>, <<"l", "e">>, <<"h", "o", "n", "g">>,
    <<"w", "e", "s", "t">>, <<"c", "e", "n", "t", "r", "a", "l">>, <<"w", "a", "n">>,
    <<"t", "a", "i">>, <<"s", "h", "i", "n", "g">>, <<"t", "u", "n", "g">>,
    <<"w", "o", "n", "g">>, <<"m", "a", "n">>, <<"f", "u">>,
    <<"q", "u", "e", "e", "n", "'", "s">>, <<"k", "o", "n", "g">>, <<"h", "i", "n", "g">>,
    <<"m", "o", "u", "n", "t">>, <<"s", "r", "i">>, <<"g", "a", "l", "l", "e">>,
    <<"d", "e">>, <<"p", "e", "r", "e", "r", "a">>, <<"m", "a", "r", "i", "n", "e">>,
    <<"m", "a", "i", "n">>, <<"h", "a", "l", "l">>, <<"p", "a", "r", "k">>,
    <<"g", "a", "p">>, <<"n", "o">>, <<"r", "o", "c", "k">>,
    <<"l", "a", "n", "d">>, <<"t", "e", "n", "a", "n", "t", "r", "y">>, <<"v", "i", "e", "w">>,
    <<"v", "i", "l", "l", "a", "g", "e">>, <<"b", "a", "y">>, <<"d", "e", "l">>,
    <<"1", "e", "r">>, <<"5", "t", "a">>, <<"1", "s", "t">>,
    <<"2", "n", "d">>, <<"3", "r", "d">>, <<"4", "t", "h">>,
    <<"5", "t", "h">>, <<"1", "r", "o">>, <<"2", "d", "o">>,
    <<"3", "r", "o">>, <<"4", "t", "o">>, <<"5", "t", "o">>,
    <<"1", "<ordm>">>, <<"2", "<ordm>">>, <<"3", "<ordm>">>,
    <<"4", "<ordm>">>, <<"5", "<ordm>">>, <<"s", "a", "n">>,
    <<"m", "a", "r", "k", "e", "t">>, <<"k", "a", "m", "e", "h", "a", "m", "e", "h", "a">>, <<"t", "u", "a", "s">>,
    <<"b", "u", "k", "i", "t">>, <<"m", "i", "s", "s", "i", "o", "n">>
}

\* type(row['name']) is float
IsFloat(v) == v.t = "float"

\* word.lower() not in STOP_WORDS and len(word) > 1 and not word.isdigit()
IsValidWord(word) ==
    /\ Lower(word) \notin STOP_WORDS
    /\ Len(word) > 1
    /\ ~IsDigit(word)

\* the generator valid_words of one row
ValidWords(v) ==
    LET words == Split(PyStr(v))
        RECURSIVE Keep(_)
        Keep(ws) ==
            IF ws = << >> THEN << >>
            ELSE IF IsValidWord(Head(ws)) THEN <<Lower(Head(ws))>> \o Keep(Tail(ws))
            ELSE Keep(Tail(ws))
    IN  Keep(words)

HasKey(d, k) == \E i \in DOMAIN d : d[i][1] = k
Get(d, k) == IF HasKey(d, k) THEN d[CHOOSE i \in DOMAIN d : d[i][1] = k][2] ELSE 0
Keys(d) == [i \in DOMAIN d |-> d[i][1]]

IncrementOnce(occ, word) ==
    IF HasKey(occ, word) THEN occ ELSE Append(occ, <<word, 1>>)

\* occurrences[word] += 1 on a defaultdict(int): a new word is inserted at
\* the end, a known word keeps its place
Increment(occ, word) ==
    IF HasKey(occ, word)
      THEN [i \in DOMAIN occ |->
               IF occ[i][1] = word THEN <<word, occ[i][2] + 1>> ELSE occ[i]]
      ELSE Append(occ, <<word, 1>>)

RECURSIVE CountWords(_, _)
CountWords(occ, ws) ==
    IF ws = << >> THEN occ ELSE CountWords(Increment(occ, Head(ws)), Tail(ws))

RECURSIVE CountRows(_, _)
CountRows(occ, rows) ==
    IF rows = << >> THEN occ
    ELSE IF IsFloat(Head(rows)) THEN CountRows(occ, Tail(rows))
    ELSE CountRows(CountWords(occ, ValidWords(Head(rows))), Tail(rows))

find_common_words(rows) == CountRows(<< >>, rows)

(***************************************************************************)
(* generate_image: the top words, Counter(popular_words).most_common(k)    *)
(***************************************************************************)

InsertSlot(done, item, n) ==
    SubSeq(done, 1, n) \o <<item>> \o SubSeq(done, n + 1, Len(done))

InsertBeforeEqual(done, item) ==
    InsertSlot(done, item, Cardinality({i \in DOMAIN done : done[i][2] > item[2]}))

\* item goes after every item of done whose count is at least its own
InsertAfterEqual(done, item) ==
    InsertSlot(done, item, Cardinality({i \in DOMAIN done : done[i][2] >= item[2]}))

\* sorted(items, key=count, reverse=True): descending order of count, items
\* of equal count in their order in the dict (the sort is stable)
RECURSIVE SortedDescending(_, _)
SortedDescending(done, todo) ==
    IF todo = << >> THEN done
    ELSE SortedDescending(InsertAfterEqual(done, Head(todo)), Tail(todo))

Prefix(s, n) == SubSeq(s, 1, Min(Max(n, 0), Len(s)))

\* Counter.most_common(n) for an integer n is heapq.nlargest(n, items,
\* key=count), which is sorted(items, key=count, reverse=True)[:n].
most_common(d, n) == Prefix(SortedDescending(<< >>, d), n)

\* The tokens road names are made of: too short, digits only, a stop word in
\* lower and in mixed case, and four that count, two of them the same word
\* in different case.
Tokens == {
    <<"d">>, <<"1", "1">>, <<"d", "e">>, <<"D", "e">>,
    <<"d", "d">>, <<"D", "d">>, <<"e", "d">>, <<"1", "d">>
}

\* The number of tokens in all the names of one graph.
MaxTokens == 3
\* The largest key_size.
MaxKeySize == 3

RECURSIVE Join(_)
Join(ts) ==
    IF Len(ts) = 0 THEN << >>
    ELSE IF Len(ts) = 1 THEN ts[1]
    ELSE ts[1] \o <<" ">> \o Join(Tail(ts))

\* The names that are not a str count as one token.
OtherNames == {NaN, None, ListValue(<< <<"d", "d">>, <<"e", "d">> >>)}

NamesOf(w) ==
    {StrValue(Join(ts)) : ts \in [1..w -> Tokens]} \cup (IF w = 1 THEN OtherNames ELSE {})

RECURSIVE EdgeLists(_)
EdgeLists(b) ==
    {<< >>} \cup UNION {{<<n>> \o rest : n \in NamesOf(w), rest \in EdgeLists(b - w)} :
                          w \in 1..b}

InitWords ==
    /\ pc = "find_common_words"
    /\ edges \in EdgeLists(MaxTokens)
    /\ occurrences = << >>
    /\ key_size = 0
    /\ top = << >>
    /\ start = 0
    /\ which_result = 0
    /\ attempts = 0
    /\ last_fetch = -1
    /\ graph = NoGraph
    /\ palette_key = << >>
    /\ road_name = << >>
    /\ edge_color = << >>

\* popular_words = find_common_words(edge_attributes)
FindCommonWords ==
    /\ pc = "find_common_words"
    /\ occurrences' = find_common_words(edges)
    /\ pc' = "most_common"
    /\ UNCHANGED <<getDataVars, edges, key_size, top, palette_key, colorVars>>

\* top = dict(Counter(popular_words).most_common(key_size))
MostCommon ==
    /\ pc = "most_common"
    /\ \E k \in 0..MaxKeySize :
          /\ key_size' = k
          /\ top' = most_common(occurrences, k)
    /\ pc' = "top"
    /\ UNCHANGED <<getDataVars, wordVars, palette_key, colorVars>>

NextWords == FindCommonWords \/ MostCommon

SpecWords == InitWords /\ [][NextWords]_vars

\* The name of edge e as the text the words are taken from.
NameText(e) == PyStr(edges[e])

IsTextual(v) == v.t = "str"

\* The characters i..j of s are a token: a stretch without a space that has
\* a space or an end of s on either side.
IsToken(s, i, j) ==
    /\ i <= j
    /\ \A k \in i..j : s[k] # " "
    /\ i = 1 \/ s[i - 1] = " "
    /\ j = Len(s) \/ s[j + 1] = " "

TokenPlaces(E) ==
    {p \in UNION {{<<e, i, j>> : i \in 1..Len(NameText(e)), j \in 1..Len(NameText(e))} : e \in E} :
        IsToken(NameText(p[1]), p[2], p[3])}

TokenAt(p) == SubSeq(NameText(p[1]), p[2], p[3])

\* The three filters, on the lower-case form w of a token.
Qualifies(w) ==
    /\ w \notin STOP_WORDS
    /\ Len(w) >= 2
    /\ \E i \in 1..Len(w) : w[i] \notin Digits

\* The tokens of the edges E whose lower-case form is w, when w qualifies.
Occurrences(E, w) ==
    IF Qualifies(w) THEN {p \in TokenPlaces(E) : Lower(TokenAt(p)) = w} ELSE {}

WordsSeen == {Lower(TokenAt(p)) : p \in TokenPlaces(DOMAIN edges)}
               \cup {occurrences[i][1] : i \in DOMAIN occurrences}

TextualEdges == {e \in DOMAIN edges : IsTextual(edges[e])}

Counted == pc \in {"most_common", "top"}

\* C7: when every name is a str, the count of a word is the number of tokens
\* of all the names, repetitions inside one name included, whose lower-case
\* form is that word and passes the three filters (not a stop word, longer
\* than one character, not digits only); a word that fails a filter is no
\* key of the result, and no key is there twice.
C7_CountsTokens ==
    Counted /\ TextualEdges = DOMAIN edges =>
        /\ \A w \in WordsSeen :
               Get(occurrences, w) = Cardinality(Occurrences(DOMAIN edges, w))
        /\ \A i \in DOMAIN occurrences :
               Qualifies(occurrences[i][1]) /\ occurrences[i][2] >= 1
        /\ \A i, j \in DOMAIN occurrences :
               occurrences[i][1] = occurrences[j][1] => i = j

\* One name holds the same word twice, in different case, next to a stop
\* word in mixed case.
C7_Witness ==
    /\ Counted
    /\ edges = <<StrValue(<<"D", "d", " ", "D", "e", " ", "d", "d">>)>>
    /\ occurrences = << <<<<"d", "d">>, 2>> >>

\* C6: an edge whose name is not a str (None, NaN, a list) adds nothing: the
\* counts are those of the tokens of the edges whose name is a str.
C6_NonTextualIgnored ==
    Counted =>
        \A w \in WordsSeen : Get(occurrences, w) = Cardinality(Occurrences(TextualEdges, w))

\* Item j of the word counts comes before item i in the ranking: a larger
\* count, or the same count and seen earlier.
Outranks(j, i) ==
    \/ occurrences[j][2] > occurrences[i][2]
    \/ occurrences[j][2] = occurrences[i][2] /\ j < i

\* C2: the top words are the first key_size of the word counts in descending
\* order of count, words of equal count in first-seen order: there are
\* min(key_size, number of words) of them, none for key_size 0 or for no
\* edges, and the m-th is the word that exactly m - 1 words outrank.
C2_TopWords ==
    pc = "top" =>
        /\ Len(top) = Min(key_size, Len(occurrences))
        /\ key_size = 0 \/ edges = << >> => top = << >>
        /\ \A m \in 1..Len(top) :
               \E i \in DOMAIN occurrences :
                   /\ top[m] = occurrences[i]
                   /\ Cardinality({j \in DOMAIN occurrences : Outranks(j, i)}) = m - 1

\* Three words seen once each, in the order ed, dd, 1d, and key_size 2: the
\* two seen first are kept, in that order.
C2_Witness ==
    /\ pc = "top"
    /\ key_size = 2
    /\ Keys(occurrences) = << <<"e", "d">>, <<"d", "d">>, <<"1", "d">> >>
    /\ \A i \in DOMAIN occurrences : occurrences[i][2] = 1
    /\ Keys(top) = << <<"e", "d">>, <<"d", "d">> >>

(***************************************************************************)
(* palette_generator                                                       *)
(***************************************************************************)

\* The i-th (from 0) of the n colors of sns.husl_palette(n), as the hex code
\* made of it.  The n hues are evenly spaced round the hue circle, position
\* i at i/n of the circle; the color is kept as its position, the arithmetic
\* of the color space is not modelled.
HexColor(n, i) == <<"husl", n, i>>

\* hex_palette: the n colors in the order they are generated
HexPalette(n) == [p \in 1..n |-> HexColor(n, p - 1)]

InterleaveKeysNoLeftover(item_keys) ==
    LET middle_index == Len(item_keys) \div 2
    IN  [p \in 1..(2 * middle_index) |->
            IF p % 2 = 1 THEN item_keys[(p + 1) \div 2]
            ELSE item_keys[middle_index + (p \div 2)]]

InterleaveKeysInOrder(item_keys) == item_keys

InterleaveKeysFirstHalfLarger(item_keys) ==
    LET n == Len(item_keys)
        middle_index == n \div 2
        first == n - middle_index
    IN  [p \in 1..n |->
            IF p > 2 * middle_index THEN item_keys[first]
            ELSE IF p % 2 = 1 THEN item_keys[(p + 1) \div 2]
            ELSE item_keys[first + (p \div 2)]]

\* keys: for i in range(middle_index) the words i and middle_index + i, and
\* after them the last word when the number of words is odd
InterleaveKeys(item_keys) ==
    LET n == Len(item_keys)
        middle_index == n \div 2
        RECURSIVE Loop(_, _)
        Loop(keys, i) ==
            IF i >= middle_index THEN keys
            ELSE Loop(keys \o <<item_keys[i + 1], item_keys[middle_index + i + 1]>>, i + 1)
        zipped == Loop(<< >>, 0)
    IN  IF n % 2 = 1 THEN Append(zipped, item_keys[n]) ELSE zipped

\* zip(a, b): pairs up to the end of the shorter
Zip(a, b) == [p \in 1..Min(Len(a), Len(b)) |-> <<a[p], b[p]>>]

\* d[k] = v
SetItem(d, k, v) ==
    IF HasKey(d, k)
      THEN [i \in DOMAIN d |-> IF d[i][1] = k THEN <<k, v>> ELSE d[i]]
      ELSE Append(d, <<k, v>>)

\* dict(pairs)
RECURSIVE DictOf(_, _)
DictOf(d, pairs) ==
    IF pairs = << >> THEN d
    ELSE DictOf(SetItem(d, Head(pairs)[1], Head(pairs)[2]), Tail(pairs))

palette_generator(items) ==
    DictOf(<< >>, Zip(InterleaveKeys(Keys(items)), HexPalette(Len(items))))

\* The number of words the top words of a palette are taken from.
MaxWords == 10

PoolWord(i) == <<"w", LowerCase[i]>>

\* The words of S in increasing order, each seen once.
RECURSIVE TopOf(_)
TopOf(S) ==
    IF S = {} THEN << >>
    ELSE LET i == CHOOSE x \in S : \A y \in S : x <= y
         IN  <<<<PoolWord(i), 1>>>> \o TopOf(S \ {i})

InitPalette ==
    /\ pc = "palette_generator"
    /\ \E S \in SUBSET (1..MaxWords) : top = TopOf(S)
    /\ key_size = Len(top)
    /\ palette_key = << >>
    /\ edges = << >>
    /\ occurrences = << >>
    /\ start = 0
    /\ which_result = 0
    /\ attempts = 0
    /\ last_fetch = -1
    /\ graph = NoGraph
    /\ road_name = << >>
    /\ edge_color = << >>

\* palette_key = palette_generator(top)
PaletteGenerator ==
    /\ pc = "palette_generator"
    /\ palette_key' = palette_generator(top)
    /\ pc' = "palette"
    /\ UNCHANGED <<getDataVars, wordVars, key_size, top, colorVars>>

NextPalette == PaletteGenerator

SpecPalette == InitPalette /\ [][NextPalette]_vars

Word(r) == top[r][1]
NumWords == Len(top)
Middle == NumWords \div 2

\* C3 (as stated): the first half is the larger one when the number of words
\* is odd: the keys alternate between the first n - n/2 words and the n/2
\* words after them, and the word left over, the last of the first half,
\* comes last; key i is bound to color i.
C3_FirstHalfLarger ==
    pc = "palette" =>
        /\ Len(palette_key) = NumWords
        /\ \A i \in 0..(Middle - 1) :
               /\ palette_key[2 * i + 1] = <<Word(i + 1), HexColor(NumWords, 2 * i)>>
               /\ palette_key[2 * i + 2] =
                      <<Word(NumWords - Middle + i + 1), HexColor(NumWords, 2 * i + 1)>>
        /\ NumWords % 2 = 1 =>
               palette_key[NumWords] =
                   <<Word(NumWords - Middle), HexColor(NumWords, NumWords - 1)>>

\* C3 (amended): both halves have n/2 words (rounded down): the keys
\* alternate between the first n/2 words and the n/2 words after them, and
\* when n is odd the last word of the list comes last; key i is bound to
\* color i.
C3_Interleave ==
    pc = "palette" =>
        /\ Len(palette_key) = NumWords
        /\ \A i \in 0..(Middle - 1) :
               /\ palette_key[2 * i + 1] = <<Word(i + 1), HexColor(NumWords, 2 * i)>>
               /\ palette_key[2 * i + 2] =
                      <<Word(Middle + i + 1), HexColor(NumWords, 2 * i + 1)>>
        /\ NumWords % 2 = 1 =>
               palette_key[NumWords] = <<Word(NumWords), HexColor(NumWords, NumWords - 1)>>

\* Five words: the keys are words 1, 3, 2, 4, 5.
C3_Witness ==
    /\ pc = "palette"
    /\ NumWords = 5
    /\ Keys(palette_key) = <<Word(1), Word(3), Word(2), Word(4), Word(5)>>

\* The position on the hue circle of the color bound to the word of rank r.
HuePosition(r) == Get(palette_key, Word(r))[3]

Neighbours(a, b, n) == (a - b) % n \in {1, n - 1}

NoNeighbouringRanks ==
    \A r \in 1..(NumWords - 1) : ~Neighbours(HuePosition(r), HuePosition(r + 1), NumWords)

\* C4 (as stated): for 4 words or more, no two words of consecutive rank
\* are bound to colors that are neighbours on the hue circle.
C4_AnyCount == pc = "palette" /\ NumWords >= 4 => NoNeighbouringRanks

\* C4 (amended): for an even number of words, 6 or more, no two words of
\* consecutive rank are bound to colors that are neighbours on the hue
\* circle.
C4_EvenCount ==
    pc = "palette" /\ NumWords >= 6 /\ NumWords % 2 = 0 => NoNeighbouringRanks

\* Six words: ranks 3 and 4 are bound to positions 4 and 1.
C4_Witness ==
    /\ pc = "palette"
    /\ NumWords = 6
    /\ HuePosition(3) = 4
    /\ HuePosition(4) = 1

\* C8: the palette has one entry per top word: as many entries as words, the
\* same set of keys, no key twice, and no generated color bound twice.
C8_OneColorPerWord ==
    pc = "palette" =>
        /\ Len(palette_key) = NumWords
        /\ {palette_key[p][1] : p \in DOMAIN palette_key} = {Word(r) : r \in DOMAIN top}
        /\ \A p, q \in DOMAIN palette_key :
               (palette_key[p][1] = palette_key[q][1] \/ palette_key[p][2] = palette_key[q][2])
                   => p = q
        /\ \A p \in DOMAIN palette_key :
               \E i \in 0..(NumWords - 1) : palette_key[p][2] = HexColor(NumWords, i)

\* An odd number of words, each with its color.
C8_Witness ==
    /\ pc = "palette"
    /\ NumWords = 7
    /\ Len(palette_key) = 7
    /\ palette_key[7][1] = Word(7)

(***************************************************************************)
(* color_for_road                                                          *)
(***************************************************************************)

\* "#c6c6c6"; no color of a palette equals it.
DefaultColor == <<"#c6c6c6", 0, 0>>

color_for_road_last_match(name, palette) ==
    LET road == Lower(PyStr(name))
        hits == {i \in DOMAIN palette : Contains(palette[i][1], road)}
    IN  IF hits = {} THEN DefaultColor
        ELSE palette[CHOOSE i \in hits : \A j \in hits : j <= i][2]

\* road_name = str(road_name).lower(); the color of the first key of the
\* palette, in the order of the dict, that is in road_name, else the default
color_for_road(name, palette) ==
    LET road == Lower(PyStr(name))
        RECURSIVE Loop(_)
        Loop(i) ==
            IF i > Len(palette) THEN DefaultColor
            ELSE IF Contains(palette[i][1], road) THEN palette[i][2]
            ELSE Loop(i + 1)
    IN  Loop(1)

\* The words the top words of a road's palette are taken from.
KeyPool == {<<"a", "n">>, <<"n", "a">>, <<"o", "n">>, <<"n", "n">>, <<"n", "a", "n">>}

\* The characters of a road's name.
RoadChars == {"a", "n", "o", "N"}

\* The most top words of a road's palette.
MaxKeys == 4
\* The longest name of a road.
MaxRoadLen == 3

RoadNames ==
    {NaN, None} \cup
    UNION {{StrValue(s) : s \in [1..len -> RoadChars]} : len \in 0..MaxRoadLen}

Injective(s) == \A i, j \in DOMAIN s : s[i] = s[j] => i = j

TopsOfPool ==
    UNION {{[r \in 1..n |-> <<ks[r], 1>>] : ks \in {s \in [1..n -> KeyPool] : Injective(s)}} :
             n \in 0..Min(MaxKeys, Cardinality(KeyPool))}

InitColor ==
    /\ pc = "palette_generator"
    /\ top \in TopsOfPool
    /\ key_size = Len(top)
    /\ road_name \in RoadNames
    /\ edge_color = << >>
    /\ palette_key = << >>
    /\ edges = << >>
    /\ occurrences = << >>
    /\ start = 0
    /\ which_result = 0
    /\ attempts = 0
    /\ last_fetch = -1
    /\ graph = NoGraph

\* color_for_road(row['name'], palette_key), for one row
ColorForRoad ==
    /\ pc = "palette"
    /\ edge_color' = color_for_road(road_name, palette_key)
    /\ pc' = "colored"
    /\ UNCHANGED <<getDataVars, wordVars, key_size, top, palette_key, road_name>>

NextColor == PaletteGenerator \/ ColorForRoad

SpecColor == InitColor /\ [][NextColor]_vars

\* The places in the palette of the keys that are in the lower-case text of
\* the road's name.
KeysInName ==
    {p \in DOMAIN palette_key : Contains(palette_key[p][1], Lower(PyStr(road_name)))}

\* C5: the color of a road is that of the first key, in the order of the
\* palette, that is in the lower-case text of its name, and it is the
\* default exactly when no key is in it (so always for an empty palette).
C5_FirstKey ==
    pc = "colored" =>
        /\ KeysInName = {} <=> edge_color = DefaultColor
        /\ \A p \in KeysInName :
               (\A q \in KeysInName : p <= q) => edge_color = palette_key[p][2]
        /\ palette_key = << >> => edge_color = DefaultColor

\* The words of rank 2 and 3 are both in "Nan"; the palette holds the word
\* of rank 3 before that of rank 2, and its color, the second, is returned.
C5_Witness ==
    /\ pc = "colored"
    /\ Keys(top) = << <<"o", "n">>, <<"a", "n">>, <<"n", "a">>, <<"n", "n">> >>
    /\ road_name = StrValue(<<"N", "a", "n">>)
    /\ edge_color = HexColor(4, 1)
    /\ edge_color = Get(palette_key, <<"n", "a">>)

\* C9: a road without a name (None, or the NaN of an unnamed edge) has the
\* default color, whatever the palette.
C9_UnnamedIsDefault ==
    pc = "colored" /\ road_name \in {None, NaN} => edge_color = DefaultColor

====
